---- MODULE Spec2Model ----
(***************************************************************************)
(* Model of alfred-omni-api (src/alfred_omni_api.py, src/config.py):       *)
(* the JSON config store (Config), the throttled() debounce wrapper, the   *)
(* ListHandler pipeline (cached fetch -> filter -> add_item -> feedback),  *)
(* the handlers' cache keys, the commands of the cli, age_str and the      *)
(* Trello member id lookup.                                                *)
(***************************************************************************)
EXTENDS Integers, Sequences, FiniteSets, TLC

VARIABLES
    file,      \* the config_save file: [st, data]
    now,       \* wall clock (time.time()), in whole seconds
    pc,        \* per process: position in the running call
    h,         \* per process: arguments, locals and outcome of its current/last call
    mySet,     \* per process: the (key, value) of its last completed set still on file
    opsLeft,   \* per process: calls it may still start
    cache,     \* the workflow's cache files: cache key -> [has, at, data]
    run,       \* the ListHandler invocation in progress (or the last one)
    stats,     \* per cache key: cached_data calls and fetch calls so far
    runsLeft,  \* ListHandler invocations still to come
    env,       \* what the backends return and the command line passes
    hA, hB,    \* two handler constructions whose cache keys are compared
    keyA, keyB, \* their cache keys
    inv,       \* the command line of one invocation of the cli and how it ended
    age        \* a duration handed to age_str and the string it returned

cfgVars == <<file, pc, h, mySet, opsLeft>>
runVars == <<cache, run, stats, runsLeft, env>>
keyVars == <<hA, hB, keyA, keyB>>
cliVars == <<inv, age>>
vars == <<now, cfgVars, runVars, keyVars, cliVars>>

\* ------------------------------------------------------------------ bounds
MaxTime == 4
MaxOps == 3
MaxConcOps == 1
MaxRepoLen == 3
MaxItems == 2
MaxRuns == 3
MaxClock == 900
MaxTrelloOps == 2

Procs == {"p1", "p2"}

\* ------------------------------------------------------- Python values
PyStr(s) == [t |-> "str", v |-> s]
PyUnicode(s) == [t |-> "unicode", v |-> s]
PyInt(n) == [t |-> "int", v |-> n]
PyFloat(n) == [t |-> "float", v |-> n]
None == [t |-> "None", v |-> 0]

IsText(x) == x.t \in {"str", "unicode"}
IsNumber(x) == x.t \in {"int", "float"}

\* Python's ==: 'u' == u'u', 1 == 1.0, and a string never equals a number.
PyEq(a, b) ==
    \/ IsText(a) /\ IsText(b) /\ a.v = b.v
    \/ IsNumber(a) /\ IsNumber(b) /\ a.v = b.v
    \/ a.t = "None" /\ b.t = "None"

\* Python's truth value (the `not value` of Config.get, the `val and` of throttled).
Truthy(x) ==
    \/ IsText(x) /\ x.v # ""
    \/ IsNumber(x) /\ x.v # 0

\* ------------------------------------------------------------- dicts
EmptyDict == <<>>

DictGet(d, k) == IF k \in DOMAIN d THEN d[k] ELSE None

\* Mutant: the merge keeps the value already stored under a key.
DictUpdateKeepOld(d, u) ==
    [k \in (DOMAIN d) \cup (DOMAIN u) |-> IF k \in DOMAIN d THEN d[k] ELSE u[k]]

\* Mutant: the mapping written is the updates alone.
DictUpdateOnly(d, u) == u

\* dict.update: the keys of u overwrite, every other key of d stays.
DictUpdate(d, u) ==
    [k \in (DOMAIN d) \cup (DOMAIN u) |-> IF k \in DOMAIN u THEN u[k] ELSE d[k]]

\* --------------------------------------------------------------- json
\* json.dump of a scalar: text becomes a JSON string, a number keeps its lexical kind.
JsonDumpValue(x) ==
    IF IsText(x) THEN [j |-> "string", v |-> x.v]
    ELSE IF x.t = "int" THEN [j |-> "int", v |-> x.v]
    ELSE IF x.t = "float" THEN [j |-> "real", v |-> x.v]
    ELSE [j |-> "null", v |-> 0]

\* json.load of a scalar: every JSON string comes back as unicode.
JsonLoadValue(y) ==
    IF y.j = "string" THEN PyUnicode(y.v)
    ELSE IF y.j = "int" THEN PyInt(y.v)
    ELSE IF y.j = "real" THEN PyFloat(y.v)
    ELSE None

JsonDump(d) == [k \in DOMAIN d |-> JsonDumpValue(d[k])]
JsonLoad(o) == [k \in DOMAIN o |-> JsonLoadValue(o[k])]

\* ------------------------------------------------------------- Config
ConfigKeys == {"jira_url", "jive_url"}

\* The values a caller passes to Config.set: strings and numbers, falsy ones included.
SetValues == {PyStr(""), PyStr("u"), PyInt(0), PyInt(7)}

FileOk(d) == [st |-> "ok", data |-> d]
FileAbsent == [st |-> "absent", data |-> EmptyDict]
FileCorrupt == [st |-> "corrupt", data |-> EmptyDict]
FileEmpty == [st |-> "empty", data |-> EmptyDict]

\* Mutant: the mapping on file is not read; a rewrite starts from nothing.
LoadConfigFresh(f) ==
    IF f.st = "absent" THEN [exc |-> "IOError", data |-> EmptyDict]
    ELSE IF f.st = "ok" THEN [exc |-> "none", data |-> EmptyDict]
    ELSE [exc |-> "ValueError", data |-> EmptyDict]

\* Config.load_config: open(config_file, 'r') raises IOError on a missing file,
\* json.load raises ValueError on an empty or unparsable one.
LoadConfig(f) ==
    IF f.st = "absent" THEN [exc |-> "IOError", data |-> EmptyDict]
    ELSE IF f.st = "ok" THEN [exc |-> "none", data |-> JsonLoad(f.data)]
    ELSE [exc |-> "ValueError", data |-> EmptyDict]

\* Mutant: only an absent value counts as missing (`value is None`).
GetRaisesOnlyAbsent(enforce, value) == enforce /\ value.t = "None"

\* The `enforce and not value` test of Config.get.
GetRaises(enforce, value) == enforce /\ ~Truthy(value)

\* Config.get(key, enforce): load_config, data.get(key), the enforce test.
ConfigGet(f, key, enforce) ==
    LET r == LoadConfig(f)
        value == DictGet(r.data, key)
    IN  IF r.exc # "none" THEN [exc |-> r.exc, excKey |-> "", val |-> None]
        ELSE IF GetRaises(enforce, value)
        THEN [exc |-> "MissingConfiguration", excKey |-> key, val |-> None]
        ELSE [exc |-> "none", excKey |-> "", val |-> value]

\* ------------------------------------------------------ call records
NoSet == [k |-> "", v |-> None]

NewCall(op, key, enforce, arg) ==
    [op |-> op, key |-> key, enforce |-> enforce, arg |-> arg,
     outcome |-> "running", exc |-> "none", excKey |-> "", ret |-> None,
     data |-> EmptyDict, cont |-> "idle",
     preSt |-> "none", preData |-> EmptyDict,
     postData |-> EmptyDict,
     afterSet |-> FALSE, duringWrite |-> FALSE, fileAfter |-> "none",
     val |-> None, again |-> None, reread |-> FALSE, changed |-> FALSE,
     wrote |-> FALSE, ran |-> 0, wake |-> 0,
     overlap |-> FALSE, atOpen |-> EmptyDict]

NoCall == NewCall("none", "", FALSE, None)

\* Another process is between the open(..., 'w') and the json.dump of set_config.
WriterActive(p) == \E q \in Procs \ {p} : pc[q] = "w_dump"

\* Process q has loaded the mapping for a rewrite and has not yet written it.
SetUnderWay(q) == pc[q] \in {"w_open", "w_dump"}

Finish(c, r) ==
    [c EXCEPT !.outcome = IF r.exc = "none" THEN "returned" ELSE "raised",
              !.exc = r.exc]

\* --------------------------------------------------------- cache keys
SeqsUpTo(S, n) == UNION {[1..k -> S] : k \in 0..n}

\* str.split(sep) on a string given as its sequence of characters.
RECURSIVE Split(_, _)
Split(s, sep) ==
    IF s = <<>> THEN << <<>> >>
    ELSE LET rest == Split(Tail(s), sep)
         IN  IF Head(s) = sep THEN << <<>> >> \o rest
             ELSE << <<Head(s)>> \o Head(rest) >> \o Tail(rest)

\* sep.join(parts)
RECURSIVE Join(_, _)
Join(sep, parts) ==
    IF Len(parts) = 0 THEN <<>>
    ELSE IF Len(parts) = 1 THEN parts[1]
    ELSE parts[1] \o <<sep>> \o Join(sep, Tail(parts))

\* The subclasses of GithubRepoBaseHandler, and the classes that keep
\* ListHandler.cache_key.
RepoClasses == {"GithubPrsHandler", "GithubCommitsHandler"}
PlainClasses == {"GithubEmojiHandler", "JiraMyIssuesHandler",
                 "MyJiveActivityHandler", "HackpadsHandler", "TrelloBoardsHandler"}

\* The characters of a --repo argument that matter to the key.
RepoChars == {"a", "_", "/"}

Handler(cls, repo) == [cls |-> cls, repo |-> repo]
NoHandler == Handler("none", <<>>)

\* ListHandler.cache_key: the class name.
PlainCacheKey(hd) == <<hd.cls>>

\* GithubRepoBaseHandler.cache_key:
\* '_'.join([self.__class__.__name__] + self.repo.split('/'))
RepoCacheKey(hd) == Join("_", << <<hd.cls>> >> \o Split(hd.repo, "/"))

CacheKey(hd) == IF hd.cls \in RepoClasses THEN RepoCacheKey(hd) ELSE PlainCacheKey(hd)

\* The handlers a command line can construct: GithubRepoBaseHandler.__init__
\* rejects an empty repo.
Constructions ==
    {Handler(c, r) : c \in RepoClasses, r \in SeqsUpTo(RepoChars, MaxRepoLen) \ {<<>>}}
        \cup {Handler(c, <<>>) : c \in PlainClasses}

KeysIdle == hA = NoHandler /\ hB = NoHandler /\ keyA = <<>> /\ keyB = <<>>

\* No command line under way and no duration being formatted.
NoRepo == [given |-> FALSE, s |-> <<>>]
NoInv ==
    [pc |-> "off", cmd |-> "none", flags |-> {}, repo |-> NoRepo, query |-> None,
     token |-> FALSE, outcome |-> "none", cls |-> "none", err |-> "none", status |-> -1]
NoAge == [pc |-> "off", days |-> 0, seconds |-> 0, out |-> "", unit |-> ""]
CliIdle == inv = NoInv /\ age = NoAge

\* The cache_key property is read on the first / on the second handler.
ReadKeyA ==
    /\ keyA = <<>>
    /\ keyA' = CacheKey(hA)
    /\ UNCHANGED <<now, cfgVars, runVars, hA, hB, keyB, cliVars>>

ReadKeyB ==
    /\ keyB = <<>>
    /\ keyB' = CacheKey(hB)
    /\ UNCHANGED <<now, cfgVars, runVars, hA, hB, keyA, cliVars>>

\* ----------------------------------------------------------- ListHandler
RunClasses == {"JiraMyIssuesHandler", "MyJiveActivityHandler"}

\* cache_timeout: 60 * 10 by default, 60 * 5 for `jive --activity`,
\* 60 * 60 * 24 for `github --emoji`.
CacheTimeout(cls) ==
    IF cls = "MyJiveActivityHandler" THEN 60 * 5
    ELSE IF cls = "GithubEmojiHandler" THEN 60 * 60 * 24
    ELSE 60 * 10

\* Mutant: _run leaves the timeout out and cached_data falls back to its default.
TimeoutPassedDefault(cls) == 60

\* The max_age _run hands to cached_data: self.cache_timeout.
TimeoutPassed(cls) == CacheTimeout(cls)

\* An item of a backend's list: where it came from, its place in the fetched
\* list, and what add_item does with it ("liked": a Jive activity that
\* MyJiveActivityHandler drops; "broken": a field is None and formatting raises).
Item(cls, i, kind) == [src |-> cls, id |-> i, kind |-> kind]
ItemKinds == {"plain", "liked", "broken"}

FetchResults(cls) ==
    {[i \in 1..Len(kinds) |-> Item(cls, i, kinds[i])] :
        kinds \in SeqsUpTo(env.kinds, env.maxLen)}

\* A record of the cache is fresh while its age is below the timeout.
IsFresh(rec, maxAge) == rec.has /\ now - rec.at < maxAge

NoRecord == [has |-> FALSE, at |-> 0, data |-> <<>>]

\* Mutant: an empty string counts as a query (`is not None`).
QueryGivenNotNone(query) == query # None

\* `if self.query:`
QueryGiven(query) == Truthy(query)

\* workflow.filter(query, items, key): the items that match, best match first.
FilterResults(items) ==
    {[i \in 1..Len(f) |-> items[f[i]]] :
        f \in {g \in SeqsUpTo(1..Len(items), Len(items)) :
                 \A i, j \in 1..Len(g) : i # j => g[i] # g[j]}}

\* The key functions of filtered_items concatenate fields; a None field raises.
FilterRaises(items) == \E i \in 1..Len(items) : items[i].kind = "broken"

\* Mutant: add_item has no early return.
SuppressedNever(cls, it) == FALSE

\* MyJiveActivityHandler.add_item returns early for these: 'liked' in the verb
\* or 'task' in the object type.
Suppressed(cls, it) == cls = "MyJiveActivityHandler" /\ it.kind \in {"liked", "task"}

AddItemRaises(cls, it) == it.kind = "broken"

\* The row add_item hands to workflow.add_item.
Render(cls, it) ==
    [title |-> it.id, subtitle |-> it.src, arg |-> it.id, icon |-> "web", valid |-> TRUE]

\* The item Workflow.run shows in place of the list after an exception.
ErrorRow ==
    [title |-> 0, subtitle |-> "error", arg |-> 0, icon |-> "error", valid |-> FALSE]

NoRun ==
    [pc |-> "idle", hd |-> NoHandler, ttl |-> 0, query |-> None,
     source |-> <<>>, items |-> <<>>, idx |-> 0, rows |-> <<>>, emitted |-> <<>>,
     result |-> -1, status |-> -1, err |-> "none",
     found |-> FALSE, age |-> 0, fetched |-> 0, filtered |-> 0,
     retry |-> FALSE, before |-> NoRecord]

RunIdle ==
    /\ run = NoRun /\ runsLeft = 0
    /\ cache = [k \in {} |-> NoRecord] /\ stats = [k \in {} |-> 0]
    /\ env = [classes |-> {}, kinds |-> {}, queries |-> {}, maxLen |-> 0, steps |-> {}]

\* ListHandler.__init__ and the entry into run(): workflow.run(self._run).
NewRun(cls, repo, query) ==
    [NoRun EXCEPT !.pc = "cached_data", !.hd = Handler(cls, repo),
                  !.ttl = TimeoutPassed(cls), !.query = query]

\* `Handler(query=query, cache_timeout=...).run()` from a command of the cli.
StartRun(cls, query) ==
    /\ run.pc = "idle" /\ runsLeft > 0
    /\ runsLeft' = runsLeft - 1
    /\ run' = NewRun(cls, <<>>, query)
    /\ UNCHANGED <<now, cfgVars, cache, stats, env, keyVars, cliVars>>

\* Per key: calls of cached_data, calls of fetch, and whether the last call of
\* cached_data on the key ended in fetch raising.
Called(key, fetched, failed) ==
    [stats EXCEPT ![key] = [calls |-> @.calls + 1, fetches |-> @.fetches + fetched,
                            failed |-> failed]]

\* Mutant: _run catches what fetch raises and goes on with the list it has.
FetchErrorSwallowed == "filter"

\* _run has no handler around cached_data: what fetch raises leaves _run.
FetchErrorLeaves == "except"

\* workflow.cached_data(cache_key, fetch, cache_timeout) finds a fresh record.
CachedDataHit ==
    /\ run.pc = "cached_data"
    /\ LET key == CacheKey(run.hd)
       IN  /\ IsFresh(cache[key], run.ttl)
           /\ run' = [run EXCEPT !.pc = "filter", !.found = TRUE,
                                 !.retry = stats[key].failed, !.before = cache[key],
                                 !.age = now - cache[key].at,
                                 !.source = cache[key].data, !.items = cache[key].data]
           /\ stats' = Called(key, 0, FALSE)
    /\ UNCHANGED <<now, cfgVars, cache, runsLeft, env, keyVars, cliVars>>

\* ... finds none or a stale one, calls fetch and stores what it returns.
CachedDataFetch(data) ==
    /\ run.pc = "cached_data"
    /\ LET key == CacheKey(run.hd)
       IN  /\ ~IsFresh(cache[key], run.ttl)
           /\ run' = [run EXCEPT !.pc = "filter", !.found = cache[key].has,
                                 !.retry = stats[key].failed, !.before = cache[key],
                                 !.age = IF cache[key].has THEN now - cache[key].at ELSE 0,
                                 !.fetched = @ + 1,
                                 !.source = data, !.items = data]
           /\ cache' = [cache EXCEPT ![key] = [has |-> TRUE, at |-> now, data |-> data]]
           /\ stats' = Called(key, 1, FALSE)
    /\ UNCHANGED <<now, cfgVars, runsLeft, env, keyVars, cliVars>>

\* ... calls fetch, and fetch raises: nothing is stored.
CachedDataFetchRaises ==
    /\ run.pc = "cached_data"
    /\ LET key == CacheKey(run.hd)
       IN  /\ ~IsFresh(cache[key], run.ttl)
           /\ run' = [run EXCEPT !.pc = FetchErrorLeaves, !.found = cache[key].has,
                                 !.retry = stats[key].failed, !.before = cache[key],
                                 !.age = IF cache[key].has THEN now - cache[key].at ELSE 0,
                                 !.fetched = @ + 1, !.err = "fetch"]
           /\ stats' = Called(key, 1, TRUE)
    /\ UNCHANGED <<now, cfgVars, cache, runsLeft, env, keyVars, cliVars>>

\* `if self.query: items = self.filtered_items(items, self.query)`
FilterStep ==
    /\ run.pc = "filter"
    /\ IF ~QueryGiven(run.query)
       THEN run' = [run EXCEPT !.pc = "render", !.idx = 1]
       ELSE IF FilterRaises(run.items)
       THEN run' = [run EXCEPT !.pc = "except", !.err = "filter", !.filtered = @ + 1]
       ELSE \E kept \in FilterResults(run.items) :
                run' = [run EXCEPT !.pc = "render", !.idx = 1, !.items = kept,
                                   !.filtered = @ + 1]
    /\ UNCHANGED <<now, cfgVars, cache, stats, runsLeft, env, keyVars, cliVars>>

\* One turn of `for item in items: self.add_item(item)`.
AddItem ==
    /\ run.pc = "render" /\ run.idx <= Len(run.items)
    /\ LET it == run.items[run.idx]
       IN  run' = IF AddItemRaises(run.hd.cls, it)
                  THEN [run EXCEPT !.pc = "except", !.err = "render"]
                  ELSE IF Suppressed(run.hd.cls, it)
                  THEN [run EXCEPT !.idx = @ + 1]
                  ELSE [run EXCEPT !.idx = @ + 1,
                                   !.rows = Append(@, Render(run.hd.cls, it))]
    /\ UNCHANGED <<now, cfgVars, cache, stats, runsLeft, env, keyVars, cliVars>>

\* _run returns and workflow.run(self._run) returns 0.
RunReturns ==
    /\ run.pc = "render" /\ run.idx > Len(run.items)
    /\ run' = [run EXCEPT !.pc = "feedback", !.result = 0]
    /\ UNCHANGED <<now, cfgVars, cache, stats, runsLeft, env, keyVars, cliVars>>

\* _run raised: workflow.run catches the exception and returns 1. With stdout
\* not a terminal (the tool runs under its host) it first replaces the items
\* added so far by one error item and sends that; on a terminal it leaves them.
RunCatches(tty) ==
    /\ run.pc = "except"
    /\ run' = IF tty
              THEN [run EXCEPT !.pc = "feedback", !.result = 1]
              ELSE [run EXCEPT !.pc = "feedback", !.result = 1,
                               !.rows = <<ErrorRow>>,
                               !.emitted = Append(@, <<ErrorRow>>)]
    /\ UNCHANGED <<now, cfgVars, cache, stats, runsLeft, env, keyVars, cliVars>>

\* Mutant: the process always ends with status 0.
ExitCodeZero(result) == 0

\* sys.exit(result): the status the process ends with.
ExitCode(result) == result

\* `self.workflow.send_feedback(); sys.exit(result)`
SendFeedbackExit ==
    /\ run.pc = "feedback"
    /\ run' = [run EXCEPT !.pc = "idle", !.emitted = Append(@, run.rows),
                          !.status = ExitCode(run.result)]
    /\ UNCHANGED <<now, cfgVars, cache, stats, runsLeft, env, keyVars, cliVars>>

\* Time passes before the next invocation.
AdvanceClock(d) ==
    /\ run.pc = "idle" /\ runsLeft > 0 /\ now + d <= MaxClock
    /\ now' = now + d
    /\ UNCHANGED <<cfgVars, runVars, keyVars, cliVars>>

RunKeys == {CacheKey(Handler(c, <<>>)) : c \in RunClasses}

RunInit(world, runs) ==
    /\ now = 0
    /\ run = NoRun /\ runsLeft = runs
    /\ cache = [k \in RunKeys |-> NoRecord]
    /\ stats = [k \in RunKeys |-> [calls |-> 0, fetches |-> 0, failed |-> FALSE]]
    /\ env = world
    /\ file = FileAbsent
    /\ pc = [p \in Procs |-> "off"]
    /\ h = [p \in Procs |-> NoCall]
    /\ mySet = [p \in Procs |-> NoSet]
    /\ opsLeft = [p \in Procs |-> 0]
    /\ KeysIdle /\ CliIdle

NextRun ==
    \/ \E c \in env.classes, q \in env.queries : StartRun(c, q)
    \/ CachedDataHit
    \/ \E d \in FetchResults(run.hd.cls) : CachedDataFetch(d)
    \/ CachedDataFetchRaises
    \/ FilterStep
    \/ AddItem
    \/ RunReturns
    \/ \E tty \in BOOLEAN : RunCatches(tty)
    \/ SendFeedbackExit
    \/ \E d \in env.steps : AdvanceClock(d)

\* Repeated invocations of both handlers over time, with lists of at most one
\* well-formed item and no query; the clock moves in steps that land just
\* before and exactly on a timeout.
InitCache ==
    RunInit([classes |-> RunClasses, kinds |-> {"plain"}, queries |-> {None},
             maxLen |-> 1, steps |-> {299, 300}], MaxRuns)

SpecCache == InitCache /\ [][NextRun]_vars

\* Two invocations of the Jive activity list with every kind of item and query.
InitRun ==
    RunInit([classes |-> {"MyJiveActivityHandler"}, kinds |-> ItemKinds,
             queries |-> {None, PyStr(""), PyStr("q")},
             maxLen |-> MaxItems, steps |-> {300}], 2)

SpecRun == InitRun /\ [][NextRun]_vars

\* One invocation of the Jive activity list whose items render or are
\* suppressed, with and without a query, on lists one longer than MaxItems; the
\* cache is empty or holds the list an earlier invocation fetched at time 0.
OrderWorld ==
    [classes |-> {"MyJiveActivityHandler"}, kinds |-> {"plain", "liked", "task"},
     queries |-> {None, PyStr("q")}, maxLen |-> MaxItems + 1, steps |-> {300}]

EarlierList ==
    <<Item("MyJiveActivityHandler", 1, "plain"), Item("MyJiveActivityHandler", 2, "task"),
      Item("MyJiveActivityHandler", 3, "plain")>>

InitOrder ==
    /\ now = 0
    /\ run = NoRun /\ runsLeft = 1
    /\ \E rec \in {NoRecord, [has |-> TRUE, at |-> 0, data |-> EarlierList]} :
            cache = [k \in RunKeys |->
                       IF k = CacheKey(Handler("MyJiveActivityHandler", <<>>))
                       THEN rec ELSE NoRecord]
    /\ stats = [k \in RunKeys |-> [calls |-> 0, fetches |-> 0, failed |-> FALSE]]
    /\ env = OrderWorld
    /\ file = FileAbsent
    /\ pc = [p \in Procs |-> "off"]
    /\ h = [p \in Procs |-> NoCall]
    /\ mySet = [p \in Procs |-> NoSet]
    /\ opsLeft = [p \in Procs |-> 0]
    /\ KeysIdle /\ CliIdle

SpecOrder == InitOrder /\ [][NextRun]_vars

\* Two handlers are constructed and their cache keys read.
InitKeys ==
    /\ hA \in Constructions /\ hB \in Constructions
    /\ keyA = <<>> /\ keyB = <<>>
    /\ now = 0
    /\ file = FileAbsent
    /\ pc = [p \in Procs |-> "off"]
    /\ h = [p \in Procs |-> NoCall]
    /\ mySet = [p \in Procs |-> NoSet]
    /\ opsLeft = [p \in Procs |-> 0]
    /\ RunIdle /\ CliIdle

NextKeys == ReadKeyA \/ ReadKeyB

SpecKeys == InitKeys /\ [][NextKeys]_vars

\* ------------------------------------------------------------------ cli
\* The commands of the click group and the mode flags each declares.
Commands == {"trello", "jive", "hackpad", "jira", "github"}

ModeFlags(cmd) ==
    IF cmd = "trello" THEN {"boards", "createcard"}
    ELSE IF cmd = "jive" THEN {"activity"}
    ELSE IF cmd = "hackpad" THEN {"pads"}
    ELSE IF cmd = "jira" THEN {"me"}
    ELSE {"prs", "commits", "emoji"}

\* --repo: not given (None), given empty, given as owner/name.
GivenRepo(r) == [given |-> TRUE, s |-> r]
CliRepos == {NoRepo, GivenRepo(<<>>), GivenRepo(<<"a", "/", "a">>)}

\* --query: not given (None) or a text.
CliQueries == {None, PyStr("q")}

\* `not repo`
RepoMissing(repo) == ~repo.given \/ repo.s = <<>>

\* Every command line of the tool: a command, any subset of its mode flags,
\* --repo for github, --query, and whether the keychain holds the GitHub token.
CommandLines ==
    {[NoInv EXCEPT !.pc = "start", !.cmd = c, !.flags = f, !.repo = r,
                   !.query = q, !.token = t] :
        c \in Commands, f \in SUBSET {"boards", "createcard", "activity", "pads",
                                      "me", "prs", "commits", "emoji"},
        r \in CliRepos, q \in CliQueries, t \in BOOLEAN}

WellFormed(i) ==
    /\ i.flags \subseteq ModeFlags(i.cmd)
    /\ i.cmd # "github" => (i.repo = NoRepo /\ i.token)

\* The command constructed a handler and called its run().
RunsHandler(cls, repo, query) ==
    /\ inv' = [inv EXCEPT !.pc = "running", !.outcome = "handler", !.cls = cls]
    /\ run' = NewRun(cls, repo, query)

\* The command function returned without doing anything: the process ends, status 0.
FallsThrough ==
    /\ inv' = [inv EXCEPT !.pc = "exited", !.outcome = "nothing", !.status = 0]
    /\ run' = run

\* An exception left the command function: traceback, status 1.
CommandRaises(err) ==
    /\ inv' = [inv EXCEPT !.pc = "exited", !.outcome = "raised", !.err = err,
                          !.status = 1]
    /\ run' = run

\* GithubRepoBaseHandler.__init__ followed by run(): `if not repo: raise
\* ValueError`, then get_github_client reads the token from the keychain.
RunsRepoHandler(cls) ==
    IF RepoMissing(inv.repo) THEN CommandRaises("RepoRequired")
    ELSE IF ~inv.token THEN CommandRaises("PasswordNotFound")
    ELSE RunsHandler(cls, inv.repo.s, inv.query)

CmdTrello ==
    /\ inv.pc = "start" /\ inv.cmd = "trello"
    /\ IF "boards" \in inv.flags THEN RunsHandler("TrelloBoardsHandler", <<>>, PyStr(""))
       ELSE IF "createcard" \in inv.flags
       THEN /\ inv' = [inv EXCEPT !.pc = "create_card", !.outcome = "action"]
            /\ run' = run
       ELSE FallsThrough
    /\ UNCHANGED <<now, cfgVars, cache, stats, runsLeft, env, keyVars, age>>

CmdJive ==
    /\ inv.pc = "start" /\ inv.cmd = "jive"
    /\ IF "activity" \in inv.flags
       THEN RunsHandler("MyJiveActivityHandler", <<>>, inv.query)
       ELSE FallsThrough
    /\ UNCHANGED <<now, cfgVars, cache, stats, runsLeft, env, keyVars, age>>

CmdHackpad ==
    /\ inv.pc = "start" /\ inv.cmd = "hackpad"
    /\ IF "pads" \in inv.flags THEN RunsHandler("HackpadsHandler", <<>>, inv.query)
       ELSE FallsThrough
    /\ UNCHANGED <<now, cfgVars, cache, stats, runsLeft, env, keyVars, age>>

CmdJira ==
    /\ inv.pc = "start" /\ inv.cmd = "jira"
    /\ IF "me" \in inv.flags THEN RunsHandler("JiraMyIssuesHandler", <<>>, inv.query)
       ELSE FallsThrough
    /\ UNCHANGED <<now, cfgVars, cache, stats, runsLeft, env, keyVars, age>>

CmdGithub ==
    /\ inv.pc = "start" /\ inv.cmd = "github"
    /\ IF "prs" \in inv.flags THEN RunsRepoHandler("GithubPrsHandler")
       ELSE IF "commits" \in inv.flags THEN RunsRepoHandler("GithubCommitsHandler")
       ELSE IF "emoji" \in inv.flags
       THEN RunsHandler("GithubEmojiHandler", <<>>, inv.query)
       ELSE CommandRaises("IDunno")
    /\ UNCHANGED <<now, cfgVars, cache, stats, runsLeft, env, keyVars, age>>

\* run_workflow(partial(trello_create_card, query)): Workflow().run catches what
\* config.get or client.create_card raises and returns 1, else 0.
TrelloCreateCard(created) ==
    /\ inv.pc = "create_card"
    /\ LET r == ConfigGet(file, "trello_list_id", TRUE)
           err == IF r.exc # "none" THEN r.exc
                  ELSE IF created THEN "none" ELSE "create_card"
       IN  inv' = [inv EXCEPT !.pc = "exited", !.err = err,
                              !.status = ExitCode(IF err = "none" THEN 0 ELSE 1)]
    /\ UNCHANGED <<now, cfgVars, runVars, keyVars, age>>

CliKeys ==
    {CacheKey(Handler(c, <<>>)) : c \in PlainClasses}
        \cup {CacheKey(Handler(c, r.s)) : c \in RepoClasses,
                                          r \in {x \in CliRepos : ~RepoMissing(x)}}

CliFiles == {FileOk(EmptyDict), FileOk(JsonDump("trello_list_id" :> PyStr("l1")))}

\* One invocation of the tool with an empty cache; a backend returns an empty
\* list, one item or an item that cannot be rendered, or raises.
InitCli ==
    /\ inv \in {i \in CommandLines : WellFormed(i)}
    /\ age = NoAge
    /\ now = 0
    /\ run = NoRun /\ runsLeft = 0
    /\ cache = [k \in CliKeys |-> NoRecord]
    /\ stats = [k \in CliKeys |-> [calls |-> 0, fetches |-> 0, failed |-> FALSE]]
    /\ env = [classes |-> {}, kinds |-> {"plain", "broken"}, queries |-> {},
              maxLen |-> 1, steps |-> {}]
    /\ file \in CliFiles
    /\ pc = [p \in Procs |-> "off"]
    /\ h = [p \in Procs |-> NoCall]
    /\ mySet = [p \in Procs |-> NoSet]
    /\ opsLeft = [p \in Procs |-> 0]
    /\ KeysIdle

NextCli ==
    \/ CmdTrello
    \/ CmdJive
    \/ CmdHackpad
    \/ CmdJira
    \/ CmdGithub
    \/ \E created \in BOOLEAN : TrelloCreateCard(created)
    \/ \E d \in FetchResults(run.hd.cls) : CachedDataFetch(d)
    \/ CachedDataFetchRaises
    \/ FilterStep
    \/ AddItem
    \/ RunReturns
    \/ \E tty \in BOOLEAN : RunCatches(tty)
    \/ SendFeedbackExit

SpecCli == InitCli /\ [][NextCli]_vars

\* -------------------------------------------------------------- age_str
\* A timedelta is its days and its seconds within the day; microseconds are
\* dropped by int(delta.total_seconds()).
SecondsPerDay == 24 * 60 * 60
TotalSeconds(days, seconds) == days * SecondsPerDay + seconds

\* int / int of Python 2: the quotient rounded down.
IntDiv(a, b) == a \div b

\* '{:.1f}'.format(float(a) / b): the quotient rounded to one decimal.
FormatOneDecimal(a, b) ==
    LET tenths == (20 * a + b) \div (2 * b)
    IN  ToString(tenths \div 10) \o "." \o ToString(tenths % 10)

\* Mutant: the unit is pluralised from 1 on (`age >= 1`).
AboveOneOrEqual(a, b) == a >= b

\* `age > 1` for age = a / b (for an int age, the quotient rounded down).
AboveOne(a, b) == a > b

\* `if age > 1: unit += 's'`
AgeUnit(unit, plural) == IF plural THEN unit \o "s" ELSE unit

\* The if/elif chain of age_str: the unit, suffixed, and the text of the number.
AgeParts(days, seconds) ==
    LET total == TotalSeconds(days, seconds)
    IN  IF days > 365
        THEN [unit |-> AgeUnit("year", AboveOne(days, 365)),
              num |-> FormatOneDecimal(days, 365)]
        ELSE IF days > 30
        THEN [unit |-> AgeUnit("month", AboveOne(IntDiv(days, 30), 1)),
              num |-> ToString(IntDiv(days, 30))]
        ELSE IF days > 1
        THEN [unit |-> AgeUnit("day", AboveOne(days, 1)), num |-> ToString(days)]
        ELSE IF total > 3600
        THEN [unit |-> AgeUnit("hour", AboveOne(IntDiv(total, 3600), 1)),
              num |-> ToString(IntDiv(total, 3600))]
        ELSE IF total > 60
        THEN [unit |-> AgeUnit("minute", AboveOne(IntDiv(total, 60), 1)),
              num |-> ToString(IntDiv(total, 60))]
        ELSE [unit |-> "", num |-> ""]

\* age_str(delta): 'just now' or '{} {} ago'.format(age, unit).
AgeStr(days, seconds) ==
    LET parts == AgeParts(days, seconds)
    IN  IF parts.unit = "" THEN "just now"
        ELSE parts.num \o " " \o parts.unit \o " ago"

\* The durations age_str is applied to: around every threshold of the chain.
AgeDays == {0, 1, 2, 3, 30, 31, 45, 59, 60, 365, 366, 400, 730}
AgeSeconds == {0, 1, 30, 59, 60, 61, 119, 120, 300, 3599, 3600, 3601, 5400,
               7199, 7200, 86399}

\* `age_str(item.updated_age)` in an add_item.
CallAgeStr ==
    /\ age.pc = "start"
    /\ age' = [age EXCEPT !.pc = "done", !.out = AgeStr(age.days, age.seconds),
                          !.unit = AgeParts(age.days, age.seconds).unit]
    /\ UNCHANGED <<now, cfgVars, runVars, keyVars, inv>>

InitAge ==
    /\ age \in {[NoAge EXCEPT !.pc = "start", !.days = d, !.seconds = sec] :
                   d \in AgeDays, sec \in AgeSeconds}
    /\ inv = NoInv
    /\ now = 0
    /\ file = FileAbsent
    /\ pc = [p \in Procs |-> "off"]
    /\ h = [p \in Procs |-> NoCall]
    /\ mySet = [p \in Procs |-> NoSet]
    /\ opsLeft = [p \in Procs |-> 0]
    /\ RunIdle /\ KeysIdle

NextAge == CallAgeStr

SpecAge == InitAge /\ [][NextAge]_vars

\* Process q is inside the delay of throttled() (between its two reads of the
\* timestamp) while process p writes the file with the same timestamp key.
InDelayOf(q, p) ==
    /\ q # p
    /\ pc[q] \in {"t_sleep", "t_check"}
    /\ h[p].op = "throttled" /\ h[p].key = h[q].key

\* ---------------------------------------------------- Config.__init__
\* `if not os.path.exists(self.config_file): self.init_config()`
CtorExists(p) ==
    /\ pc[p] = "boot"
    /\ h' = [h EXCEPT ![p] = [NewCall("ctor", "", FALSE, None) EXCEPT
                                 !.preSt = file.st, !.preData = file.data]]
    /\ pc' = [pc EXCEPT ![p] = IF file.st = "absent" THEN "w_open" ELSE "ctor_load"]
    /\ UNCHANGED <<file, now, mySet, opsLeft, runVars, keyVars, cliVars>>

\* `try: self.load_config() except ValueError: self.init_config()`
CtorLoad(p) ==
    /\ pc[p] = "ctor_load"
    /\ LET r == LoadConfig(file)
       IN  /\ h' = [h EXCEPT ![p] =
                     IF r.exc = "ValueError" THEN [@ EXCEPT !.preSt = file.st]
                     ELSE [Finish(@, r) EXCEPT !.preSt = file.st,
                                               !.preData = file.data,
                                               !.fileAfter = file.st]]
           /\ pc' = [pc EXCEPT ![p] = IF r.exc = "ValueError" THEN "w_open"
                                      ELSE IF r.exc = "none" THEN "idle"
                                      ELSE "crashed"]
    /\ UNCHANGED <<file, now, mySet, opsLeft, runVars, keyVars, cliVars>>

\* ---------------------------------------------------- Config.set_config
\* `open(self.config_file, 'w')`: the file is created or truncated to nothing.
SetConfigOpen(p) ==
    /\ pc[p] = "w_open"
    /\ file' = FileEmpty
    /\ pc' = [pc EXCEPT ![p] = "w_dump"]
    /\ mySet' = [q \in Procs |-> NoSet]
    /\ h' = [q \in Procs |-> IF q = p THEN [h[p] EXCEPT !.atOpen = file.data]
                                ELSE IF InDelayOf(q, p) THEN [h[q] EXCEPT !.changed = TRUE]
                                ELSE h[q]]
    /\ UNCHANGED <<now, opsLeft, runVars, keyVars, cliVars>>

\* `json.dump(dict_, f)` and the close of the with block: the whole text lands.
SetConfigDump(p) ==
    /\ pc[p] = "w_dump"
    /\ file' = FileOk(JsonDump(h[p].data))
    /\ pc' = [pc EXCEPT ![p] = h[p].cont]
    /\ h' = [q \in Procs |->
               IF q = p
               THEN IF h[p].cont = "idle"
                    THEN [h[p] EXCEPT !.outcome = "returned", !.fileAfter = "ok",
                                      !.postData = JsonDump(h[p].data)]
                    ELSE [h[p] EXCEPT !.wrote = TRUE, !.postData = JsonDump(h[p].data)]
               ELSE IF InDelayOf(q, p) THEN [h[q] EXCEPT !.changed = TRUE]
               ELSE h[q]]
    /\ mySet' = [q \in Procs |->
                   IF q = p /\ h[p].op = "set"
                   THEN [k |-> h[p].key, v |-> h[p].arg] ELSE NoSet]
    /\ UNCHANGED <<now, opsLeft, runVars, keyVars, cliVars>>

\* ------------------------------------------- Config.load_config / get / set
\* A direct call of config.load_config().
Load(p) ==
    /\ pc[p] = "idle" /\ opsLeft[p] > 0
    /\ LET r == LoadConfig(file)
       IN  h' = [h EXCEPT ![p] =
                   [Finish(NewCall("load", "", FALSE, None), r) EXCEPT
                      !.data = r.data, !.preSt = file.st, !.preData = file.data,
                      !.duringWrite = WriterActive(p), !.fileAfter = file.st]]
    /\ opsLeft' = [opsLeft EXCEPT ![p] = @ - 1]
    /\ UNCHANGED <<file, now, pc, mySet, runVars, keyVars, cliVars>>

\* config.get(key, enforce): one read of the file, no write.
Get(p, key, enforce) ==
    /\ pc[p] = "idle" /\ opsLeft[p] > 0
    /\ file' = file
    /\ LET r == ConfigGet(file, key, enforce)
       IN  h' = [h EXCEPT ![p] =
                   [Finish(NewCall("get", key, enforce, mySet[p].v), r) EXCEPT
                      !.excKey = r.excKey, !.ret = r.val,
                      !.preSt = file.st, !.preData = file.data,
                      !.afterSet = (mySet[p].k = key),
                      !.duringWrite = WriterActive(p),
                      !.fileAfter = file'.st, !.postData = file'.data]]
    /\ opsLeft' = [opsLeft EXCEPT ![p] = @ - 1]
    /\ UNCHANGED <<now, pc, mySet, runVars, keyVars, cliVars>>

\* config.set(key=value), first half: `data = self.load_config(); data.update(**kwargs)`.
SetLoad(p, key, value) ==
    /\ pc[p] = "idle" /\ opsLeft[p] > 0
    /\ LET r == LoadConfig(file)
           c == [NewCall("set", key, FALSE, value) EXCEPT
                   !.preSt = file.st, !.preData = file.data,
                   !.duringWrite = WriterActive(p)]
       IN  /\ h' = [q \in Procs |->
                     IF q = p
                     THEN IF r.exc = "none"
                          THEN [c EXCEPT !.data = DictUpdate(r.data, key :> value),
                                         !.overlap = \E o \in Procs \ {p} : SetUnderWay(o)]
                          ELSE [Finish(c, r) EXCEPT !.fileAfter = file.st]
                     ELSE IF r.exc = "none" /\ SetUnderWay(q)
                     THEN [h[q] EXCEPT !.overlap = TRUE]
                     ELSE h[q]]
           /\ pc' = [pc EXCEPT ![p] = IF r.exc = "none" THEN "w_open" ELSE "idle"]
    /\ opsLeft' = [opsLeft EXCEPT ![p] = @ - 1]
    /\ UNCHANGED <<file, now, mySet, runVars, keyVars, cliVars>>

\* ------------------------------------------------------- environment
\* Something outside the program garbles or removes config_save between two
\* calls of the process.
Quiet == \A p \in Procs : pc[p] \in {"idle", "off"}

Corrupt ==
    /\ file.st = "ok" /\ Quiet
    /\ file' = FileCorrupt
    /\ mySet' = [q \in Procs |-> NoSet]
    /\ UNCHANGED <<now, pc, h, opsLeft, runVars, keyVars, cliVars>>

Delete ==
    /\ file.st = "ok" /\ Quiet
    /\ file' = FileAbsent
    /\ mySet' = [q \in Procs |-> NoSet]
    /\ UNCHANGED <<now, pc, h, opsLeft, runVars, keyVars, cliVars>>

\* ------------------------------------------------- the config store
\* One invocation of the tool: Config() is constructed at import, then the
\* process calls load_config / get / set while the file may be damaged from outside.
InitFiles == {FileAbsent, FileCorrupt, FileOk(EmptyDict),
              FileOk(JsonDump("jira_url" :> PyStr("u")))}

Init ==
    /\ file \in InitFiles
    /\ now = 0
    /\ pc = [p \in Procs |-> IF p = "p1" THEN "boot" ELSE "off"]
    /\ h = [p \in Procs |-> NoCall]
    /\ mySet = [p \in Procs |-> NoSet]
    /\ opsLeft = [p \in Procs |-> MaxOps]
    /\ RunIdle /\ KeysIdle /\ CliIdle

Next ==
    \/ \E p \in Procs : CtorExists(p)
    \/ \E p \in Procs : CtorLoad(p)
    \/ \E p \in Procs : SetConfigOpen(p)
    \/ \E p \in Procs : SetConfigDump(p)
    \/ \E p \in Procs : Load(p)
    \/ \E p \in Procs, k \in ConfigKeys, e \in BOOLEAN : Get(p, k, e)
    \/ \E p \in Procs, k \in ConfigKeys, v \in SetValues : SetLoad(p, k, v)
    \/ Corrupt
    \/ Delete

Spec == Init /\ [][Next]_vars

\* ------------------------------------- two invocations on one config file
\* Both processes have constructed Config() on a well-formed file and now call
\* load_config / get / set concurrently; nothing else touches the file.
ConcFiles == {FileOk(EmptyDict), FileOk(JsonDump("jira_url" :> PyStr("u")))}

InitConc ==
    /\ file \in ConcFiles
    /\ now = 0
    /\ pc = [p \in Procs |-> "idle"]
    /\ h = [p \in Procs |-> NoCall]
    /\ mySet = [p \in Procs |-> NoSet]
    /\ opsLeft = [p \in Procs |-> MaxConcOps]
    /\ RunIdle /\ KeysIdle /\ CliIdle

NextConc ==
    \/ \E p \in Procs : SetConfigOpen(p)
    \/ \E p \in Procs : SetConfigDump(p)
    \/ \E p \in Procs : Load(p)
    \/ \E p \in Procs, k \in ConfigKeys, e \in BOOLEAN : Get(p, k, e)
    \/ \E p \in Procs, k \in ConfigKeys, v \in SetValues : SetLoad(p, k, v)

SpecConc == InitConc /\ [][NextConc]_vars

\* ---------------------------------------------------------- throttled
ActionNames == {"create_card", "post"}

\* `key = 'called_{}'.format(func.__name__)`
ThrottleKey(name) == "called_" \o name

\* Mutant: the re-read is never found to differ, so no invocation is skipped.
TimestampChangedNever(val, again) == FALSE

\* Mutant: only an older timestamp counts as a change (`<` for `!=`).
TimestampChangedIfOlder(val, again) == again.v < val.v

\* `config.get(key) != val`
TimestampChanged(val, again) == ~PyEq(again, val)

\* `val = config.get(key)`: enforce is left at its default, True.
ThrottledRead(p, name) ==
    /\ pc[p] = "idle" /\ opsLeft[p] > 0
    /\ LET key == ThrottleKey(name)
           r == ConfigGet(file, key, TRUE)
           c == [NewCall("throttled", key, TRUE, None) EXCEPT
                   !.preSt = file.st, !.preData = file.data]
       IN  /\ h' = [h EXCEPT ![p] =
                     IF r.exc = "none"
                     THEN [c EXCEPT !.val = r.val, !.wake = now + 1]
                     ELSE [Finish(c, r) EXCEPT !.excKey = r.excKey]]
           /\ pc' = [pc EXCEPT ![p] = IF r.exc = "none" THEN "t_sleep" ELSE "idle"]
    /\ opsLeft' = [opsLeft EXCEPT ![p] = @ - 1]
    /\ UNCHANGED <<file, now, mySet, runVars, keyVars, cliVars>>

\* `time.sleep(1)` returns once a second has passed.
ThrottledWake(p) ==
    /\ pc[p] = "t_sleep"
    /\ now >= h[p].wake
    /\ pc' = [pc EXCEPT ![p] = "t_check"]
    /\ UNCHANGED <<file, now, h, mySet, opsLeft, runVars, keyVars, cliVars>>

\* `if val and config.get(key) != val: return None`
ThrottledCheck(p) ==
    /\ pc[p] = "t_check"
    /\ LET r == ConfigGet(file, h[p].key, TRUE)
       IN  IF ~Truthy(h[p].val)
           THEN /\ pc' = [pc EXCEPT ![p] = "t_set"]
                /\ h' = h
           ELSE IF r.exc # "none"
           THEN /\ pc' = [pc EXCEPT ![p] = "idle"]
                /\ h' = [h EXCEPT ![p] = [Finish(@, r) EXCEPT !.excKey = r.excKey]]
           ELSE IF TimestampChanged(h[p].val, r.val)
           THEN /\ pc' = [pc EXCEPT ![p] = "idle"]
                /\ h' = [h EXCEPT ![p] = [@ EXCEPT !.reread = TRUE, !.again = r.val,
                                                   !.outcome = "skipped", !.ret = None]]
           ELSE /\ pc' = [pc EXCEPT ![p] = "t_set"]
                /\ h' = [h EXCEPT ![p] = [@ EXCEPT !.reread = TRUE, !.again = r.val]]
    /\ UNCHANGED <<file, now, mySet, opsLeft, runVars, keyVars, cliVars>>

\* `config.set(**{key: time.time()})`, its load_config and update; the write
\* follows in SetConfigOpen and SetConfigDump.
ThrottledSetLoad(p) ==
    /\ pc[p] = "t_set"
    /\ LET r == LoadConfig(file)
       IN  /\ h' = [h EXCEPT ![p] =
                     IF r.exc = "none"
                     THEN [@ EXCEPT !.arg = PyFloat(now), !.cont = "t_call",
                                    !.data = DictUpdate(r.data, h[p].key :> PyFloat(now))]
                     ELSE Finish(@, r)]
           /\ pc' = [pc EXCEPT ![p] = IF r.exc = "none" THEN "w_open" ELSE "idle"]
    /\ UNCHANGED <<file, now, mySet, opsLeft, runVars, keyVars, cliVars>>

\* `return func(*args, **kwargs)`
ThrottledCall(p) ==
    /\ pc[p] = "t_call"
    /\ h' = [h EXCEPT ![p] = [@ EXCEPT !.ran = @ + 1, !.outcome = "called",
                                       !.ret = PyStr("result")]]
    /\ pc' = [pc EXCEPT ![p] = "idle"]
    /\ UNCHANGED <<file, now, mySet, opsLeft, runVars, keyVars, cliVars>>

Tick ==
    /\ now < MaxTime
    /\ now' = now + 1
    /\ UNCHANGED <<file, pc, h, mySet, opsLeft, runVars, keyVars, cliVars>>

\* Two invocations of the tool, each calling one throttled function once. The
\* file either holds no called_<name> key yet or holds a timestamp of the past.
ThrottleFiles ==
    {FileOk(EmptyDict),
     FileOk(JsonDump([k \in {ThrottleKey(n) : n \in ActionNames} |-> PyFloat(1)]))}

InitThrottle ==
    /\ file \in ThrottleFiles
    /\ now = 1
    /\ pc = [p \in Procs |-> "idle"]
    /\ h = [p \in Procs |-> NoCall]
    /\ mySet = [p \in Procs |-> NoSet]
    /\ opsLeft = [p \in Procs |-> 1]
    /\ RunIdle /\ KeysIdle /\ CliIdle

NextThrottle ==
    \/ \E p \in Procs, n \in ActionNames : ThrottledRead(p, n)
    \/ \E p \in Procs : ThrottledWake(p)
    \/ \E p \in Procs : ThrottledCheck(p)
    \/ \E p \in Procs : ThrottledSetLoad(p)
    \/ \E p \in Procs : SetConfigOpen(p)
    \/ \E p \in Procs : SetConfigDump(p)
    \/ \E p \in Procs : ThrottledCall(p)
    \/ Tick

SpecThrottle == InitThrottle /\ [][NextThrottle]_vars

\* --------------------------------------------------- TrelloBoardsHandler
\* The ids a Trello member can have (me.id), and the values setup may have
\* left under trello_member_id.
MemberIds == {PyUnicode("m1"), PyUnicode("m2")}
MemberValues == {PyStr(""), PyStr("m1")}

\* fetch_my_member_id, first line: `member_id = config.get(TRELLO_MEMBER_ID)`,
\* enforce left at its default, True.
TrelloGetMemberId(p) ==
    /\ pc[p] = "idle" /\ opsLeft[p] > 0
    /\ LET r == ConfigGet(file, "trello_member_id", TRUE)
           c == [NewCall("trello_fetch", "trello_member_id", TRUE, None) EXCEPT
                   !.preSt = file.st, !.preData = file.data]
       IN  /\ h' = [h EXCEPT ![p] =
                     IF r.exc = "none" THEN [c EXCEPT !.val = r.val]
                     ELSE [Finish(c, r) EXCEPT !.excKey = r.excKey]]
           /\ pc' = [pc EXCEPT ![p] = IF r.exc = "none" THEN "tm_test" ELSE "idle"]
    /\ opsLeft' = [opsLeft EXCEPT ![p] = @ - 1]
    /\ UNCHANGED <<file, now, mySet, runVars, keyVars, cliVars>>

\* `if not member_id: me = self.fetch_me(); member_id = me.id;
\* config.set(trello_member_id=member_id)`, up to the load of config.set; else
\* the value read is the one returned.
TrelloTestMemberId(p, me) ==
    /\ pc[p] = "tm_test"
    /\ IF ~Truthy(h[p].val)
       THEN LET r == LoadConfig(file)
            IN  /\ h' = [h EXCEPT ![p] =
                          IF r.exc = "none"
                          THEN [@ EXCEPT !.ran = 1, !.arg = me, !.ret = me,
                                         !.cont = "tm_fetch",
                                         !.data = DictUpdate(r.data, h[p].key :> me)]
                          ELSE Finish([@ EXCEPT !.ran = 1], r)]
                /\ pc' = [pc EXCEPT ![p] = IF r.exc = "none" THEN "w_open" ELSE "idle"]
       ELSE /\ h' = [h EXCEPT ![p] = [@ EXCEPT !.ret = h[p].val]]
            /\ pc' = [pc EXCEPT ![p] = "tm_fetch"]
    /\ UNCHANGED <<file, now, mySet, opsLeft, runVars, keyVars, cliVars>>

\* TrelloBoardsHandler.fetch after fetch_my_member_id returned:
\* `if not member_id: raise ValueError(...)`, then client.get_boards(member_id).
TrelloBoardsFetch(p) ==
    /\ pc[p] = "tm_fetch"
    /\ h' = [h EXCEPT ![p] =
               IF ~Truthy(h[p].ret)
               THEN [@ EXCEPT !.outcome = "raised", !.exc = "BadMemberId"]
               ELSE [@ EXCEPT !.outcome = "boards", !.fileAfter = file.st,
                              !.postData = file.data]]
    /\ pc' = [pc EXCEPT ![p] = "idle"]
    /\ UNCHANGED <<file, now, mySet, opsLeft, runVars, keyVars, cliVars>>

\* Two invocations list the boards or store a member id (as the setup command
\* does); the file holds no member id, an empty one or a real one.
TrelloFiles ==
    {FileOk(EmptyDict)} \cup
    {FileOk(JsonDump("trello_member_id" :> v)) : v \in MemberValues}

InitTrello ==
    /\ file \in TrelloFiles
    /\ now = 0
    /\ pc = [p \in Procs |-> "idle"]
    /\ h = [p \in Procs |-> NoCall]
    /\ mySet = [p \in Procs |-> NoSet]
    /\ opsLeft = [p \in Procs |-> MaxTrelloOps]
    /\ RunIdle /\ KeysIdle /\ CliIdle

NextTrello ==
    \/ \E p \in Procs : TrelloGetMemberId(p)
    \/ \E p \in Procs, me \in MemberIds : TrelloTestMemberId(p, me)
    \/ \E p \in Procs : TrelloBoardsFetch(p)
    \/ \E p \in Procs, v \in MemberValues : SetLoad(p, "trello_member_id", v)
    \/ \E p \in Procs : SetConfigOpen(p)
    \/ \E p \in Procs : SetConfigDump(p)

SpecTrello == InitTrello /\ [][NextTrello]_vars

\* ================================================================ claims

\* A finished call of process p.
Done(p, op) == h[p].op = op /\ h[p].outcome # "running"

\* The value stored under the call's key in the file the call loaded.
Stored(p) == DictGet(JsonLoad(h[p].preData), h[p].key)

\* Two JSON values, two JSON objects are the same.
SameJson(a, b) == a.j = b.j /\ a.v = b.v
SameObject(a, b) == DOMAIN a = DOMAIN b /\ \A k \in DOMAIN a : SameJson(a[k], b[k])

C7_AlwaysRecovers ==
    \A p \in Procs :
        (h[p].outcome # "running" /\ h[p].preSt \in {"absent", "corrupt", "empty"})
            => /\ h[p].exc = "none"
               /\ h[p].fileAfter = "ok"
               /\ h[p].op = "load" => h[p].data = EmptyDict

\* C8: get(key, enforce=True) raises the missing-value error naming the key
\* exactly when the value stored in the loaded mapping is absent or falsy and
\* otherwise returns it; get(key, enforce=False) does not raise and returns the
\* stored value or None; the file is the same after the call.
C8_EnforceSemantics ==
    \A p \in Procs :
        (Done(p, "get") /\ h[p].preSt = "ok")
            => /\ (h[p].exc = "MissingConfiguration")
                    <=> (h[p].enforce /\ (Stored(p).t = "None" \/ ~Truthy(Stored(p))))
               /\ h[p].exc = "MissingConfiguration" => h[p].excKey = h[p].key
               /\ h[p].exc # "MissingConfiguration"
                    => (h[p].exc = "none" /\ h[p].ret = Stored(p))
               /\ ~h[p].enforce => h[p].outcome = "returned"
               /\ h[p].fileAfter = "ok" /\ h[p].postData = h[p].preData

C8_Witness ==
    \E p \in Procs :
        /\ Done(p, "get") /\ h[p].preSt = "ok" /\ h[p].enforce
        /\ Stored(p) = PyInt(0) /\ h[p].exc = "MissingConfiguration"

\* C10 as stated: a load_config that runs while another process is inside
\* set_config returns a complete mapping; it never finds the file empty or
\* unparsable.
C10_NoPartialRead ==
    \A p \in Procs :
        (Done(p, "load") /\ h[p].duringWrite)
            => (h[p].exc = "none" /\ h[p].preSt = "ok")

\* C1: a cached_data call of _run invokes fetch exactly once when it finds no
\* record for the handler's key or one whose age has reached the handler's
\* timeout, and not at all when it finds a younger one; per key, fetch is never
\* invoked more often than cached_data is called.
C1_CacheFreshness ==
    /\ (run.hd # NoHandler /\ run.pc # "cached_data")
         => run.fetched = IF run.found /\ run.age < CacheTimeout(run.hd.cls)
                          THEN 0 ELSE 1
    /\ \A k \in DOMAIN stats :
         /\ stats[k].fetches <= stats[k].calls
         /\ stats[k].calls > 0 => stats[k].fetches > 0

\* Three calls on one key: a fetch, a hit within the timeout, and a second
\* fetch once the timeout has elapsed.
C1_Witness ==
    \E k \in DOMAIN stats :
        /\ k = CacheKey(run.hd)
        /\ stats[k].calls = 3 /\ stats[k].fetches = 2
        /\ run.found /\ run.age = CacheTimeout(run.hd.cls) /\ run.fetched = 1
        /\ run.status = 0

\* C2 as stated: two handler constructions get the same cache key exactly when
\* they are the same class with the same repository string.
C2_KeyIsolation ==
    (keyA # <<>> /\ keyB # <<>>) => ((keyA = keyB) <=> (hA = hB))

\* C3: an invocation of the throttled wrapper whose re-read after the delay
\* returns a timestamp different from its first read returns None, writes no
\* timestamp and does not invoke the action; with the other invocation of the
\* same action finished, the action has run exactly once.
C3_ThrottleSkip ==
    \A p \in Procs :
        (h[p].op = "throttled" /\ h[p].reread /\ ~PyEq(h[p].again, h[p].val))
            => /\ h[p].outcome = "skipped" /\ h[p].ret = None
               /\ ~h[p].wrote /\ h[p].ran = 0
               /\ pc[p] = "idle"
               /\ \A q \in Procs \ {p} :
                    (h[q].op = "throttled" /\ h[q].key = h[p].key
                        /\ h[q].outcome # "running")
                        => h[p].ran + h[q].ran = 1

C3_Witness ==
    \E p \in Procs : \E q \in Procs \ {p} :
        /\ h[p].op = "throttled" /\ h[p].reread /\ ~PyEq(h[p].again, h[p].val)
        /\ h[p].outcome = "skipped"
        /\ h[q].op = "throttled" /\ h[q].key = h[p].key
        /\ h[q].outcome = "called" /\ h[q].ran = 1

\* C4 as stated: every invocation of the throttled wrapper during whose delay no
\* other invocation writes the timestamp, the first one for an action included,
\* stores the current time under called_<action>, invokes the action once and
\* returns its result without failing.
C4_AcceptPath ==
    \A p \in Procs :
        (h[p].op = "throttled" /\ pc[p] = "idle" /\ ~h[p].changed)
            => /\ h[p].outcome = "called" /\ h[p].exc = "none"
               /\ h[p].wrote /\ h[p].ran = 1

\* The rows of a list, rendered one item after the other.
RECURSIVE RenderAll(_, _)
RenderAll(cls, items) ==
    IF items = <<>> THEN <<>>
    ELSE (IF Suppressed(cls, Head(items)) THEN <<>> ELSE <<Render(cls, Head(items))>>)
            \o RenderAll(cls, Tail(items))

IsHandlerRow(row) == row.icon # "error"

\* C5 as stated: an invocation in which fetch, filter or add_item raised exits
\* with a non-zero status and none of the handler's rows is sent to the host.
C5_AllOrNothing ==
    (run.status # -1 /\ run.err # "none")
        => /\ run.status # 0
           /\ \A i \in 1..Len(run.emitted) : \A j \in 1..Len(run.emitted[i]) :
                ~IsHandlerRow(run.emitted[i][j])

\* C9: a run whose query is empty or absent never calls the filter, renders the
\* items cached_data returned, and on success sends exactly their rows, in order.
C9_FilterNoOp ==
    (run.hd # NoHandler /\ ~Truthy(run.query))
        => /\ run.filtered = 0
           /\ run.pc \in {"render", "feedback"} => run.items = run.source
           /\ run.status = 0
                => run.emitted = <<RenderAll(run.hd.cls, run.source)>>

C9_Witness ==
    /\ run.query = PyStr("") /\ run.status = 0
    /\ Len(run.source) = 2 /\ run.source[1].kind = "liked"
    /\ run.emitted = << <<Render(run.hd.cls, run.source[2])>> >>

\* C11: when cached_data finds a stale record and fetch raises, the exception
\* leaves _run, the record of the key (payload and time of fetch) and every
\* other key's record are as before the call, and the next cached_data call on
\* the key calls fetch again.
C11_FailedRefresh ==
    /\ [](/\ (run.err = "fetch" /\ run.found)
              => /\ run.pc \in {"except", "feedback", "idle"} /\ run.result # 0
                 /\ run.rows \in {<<>>, <<ErrorRow>>}
                 /\ cache[CacheKey(run.hd)] = run.before /\ run.before.has
          /\ (run.hd # NoHandler /\ run.pc # "cached_data" /\ run.retry)
              => run.fetched = 1)
    /\ [][(run.pc = "cached_data" /\ run'.err = "fetch") => cache' = cache]_vars

\* A stale record, a refresh that raised and left it in place, and the next
\* call on the key, which fetched again and replaced it.
C11_Witness ==
    /\ run.retry /\ run.found /\ run.fetched = 1 /\ run.err = "none"
    /\ run.age >= CacheTimeout(run.hd.cls)
    /\ run.before.has /\ run.before.at = 0
    /\ cache[CacheKey(run.hd)].at = now /\ now > 0
    /\ run.status = 0

\* C12 as stated: an invocation with no mode flag, with more than one, or with
\* --prs / --commits and no repository ends in a usage error before any cache
\* access or fetch; only an invocation with exactly one mode flag runs a handler.
C12_ModeSelection ==
    LET noRepo == inv.cmd = "github" /\ inv.flags \in {{"prs"}, {"commits"}}
                      /\ RepoMissing(inv.repo)
        bad == Cardinality(inv.flags) # 1 \/ noRepo
    IN  inv.pc \notin {"off", "start"}
            => /\ bad => /\ inv.outcome = "raised"
                         /\ inv.err \in {"IDunno", "RepoRequired"}
                         /\ run = NoRun
                         /\ \A k \in DOMAIN stats : stats[k].calls = 0
               /\ inv.outcome \in {"handler", "action"}
                    => Cardinality(inv.flags) = 1

\* The invocation has ended; the status it ended with; an error was raised by
\* the command, the configuration, the keychain, fetch, filter or add_item.
Exited == inv.pc = "exited" \/ (inv.pc = "running" /\ run.status # -1)
ExitStatus == IF inv.pc = "exited" THEN inv.status ELSE run.status
ErrorRaised == inv.err # "none" \/ run.err # "none"

\* C13: an invocation ends with status 0 exactly when no error was raised on
\* its way (a list of zero rows included) and with a non-zero status otherwise.
C13_ExitStatus ==
    Exited => /\ ExitStatus \in {0, 1}
              /\ (ExitStatus = 0) <=> ~ErrorRaised

\* A handler run that fetched an empty list, sent zero rows and ended with 0.
C13_Witness ==
    /\ inv.outcome = "handler" /\ Exited /\ ExitStatus = 0
    /\ run.fetched = 1 /\ run.source = <<>> /\ run.emitted = << <<>> >>

\* The bucket the claim's order selects, and whether its magnitude exceeds 1.
ClaimedBucket(days, total) ==
    IF days > 365 THEN [unit |-> "year", many |-> TRUE]
    ELSE IF days > 30 THEN [unit |-> "month", many |-> days >= 60]
    ELSE IF days > 1 THEN [unit |-> "day", many |-> TRUE]
    ELSE IF total > 3600 THEN [unit |-> "hour", many |-> total >= 7200]
    ELSE IF total > 60 THEN [unit |-> "minute", many |-> total >= 120]
    ELSE [unit |-> "", many |-> FALSE]

ClaimedUnit(days, seconds) ==
    LET b == ClaimedBucket(days, days * 86400 + seconds)
    IN  IF b.many THEN b.unit \o "s" ELSE b.unit

\* C14 as stated: buckets in the stated order, an 's' exactly for a magnitude
\* above 1, and the five literal durations give 'just now', '5 minutes ago',
\* '1.5 hours ago', '2 days ago' and '1.1 years ago'.
C14_AgeStrAsStated ==
    age.pc = "done"
        => /\ age.unit = ClaimedUnit(age.days, age.seconds)
           /\ (age.days = 0 /\ age.seconds = 30) => age.out = "just now"
           /\ (age.days = 0 /\ age.seconds = 300) => age.out = "5 minutes ago"
           /\ (age.days = 0 /\ age.seconds = 5400) => age.out = "1.5 hours ago"
           /\ (age.days = 2 /\ age.seconds = 0) => age.out = "2 days ago"
           /\ (age.days = 400 /\ age.seconds = 0) => age.out = "1.1 years ago"

\* C14 amended: the same, with 90 minutes giving '1 hour ago' (the hour and
\* minute magnitudes are quotients rounded down).
C14_AgeStr ==
    age.pc = "done"
        => /\ age.unit = ClaimedUnit(age.days, age.seconds)
           /\ (age.unit = "") <=> (age.out = "just now")
           /\ (age.days = 0 /\ age.seconds = 30) => age.out = "just now"
           /\ (age.days = 0 /\ age.seconds = 300) => age.out = "5 minutes ago"
           /\ (age.days = 0 /\ age.seconds = 5400) => age.out = "1 hour ago"
           /\ (age.days = 2 /\ age.seconds = 0) => age.out = "2 days ago"
           /\ (age.days = 400 /\ age.seconds = 0) => age.out = "1.1 years ago"

C14_Witness ==
    /\ age.pc = "done" /\ age.days = 0 /\ age.seconds = 5400
    /\ age.unit = "hour" /\ age.out = "1 hour ago"

\* The items add_item does not drop, in their order, and their rows.
Survivors(cls, items) ==
    SelectSeq(items, LAMBDA it : ~(cls = "MyJiveActivityHandler"
                                      /\ it.kind \in {"liked", "task"}))
RowsOf(cls, items) == [i \in 1..Len(items) |-> Render(cls, items[i])]

\* C15: while a run renders, the rows added so far are the renderings, in
\* order, of the items handled so far without the suppressed ones, and a run
\* that succeeds sends exactly the renderings of the items fetch/filter
\* produced, in their order, each once, with none for a suppressed item.
C15_OrderStable ==
    (run.hd # NoHandler /\ run.err = "none")
        => /\ run.pc = "render"
                => run.rows = RowsOf(run.hd.cls,
                                Survivors(run.hd.cls, SubSeq(run.items, 1, run.idx - 1)))
           /\ run.status = 0
                => run.emitted =
                     <<RowsOf(run.hd.cls, Survivors(run.hd.cls, run.items))>>

\* A filtered list of three in an order other than the fetched one, the
\* middle item suppressed: the rows of the first and the third are sent.
C15_Witness ==
    /\ run.status = 0 /\ Len(run.items) = 3 /\ Truthy(run.query)
    /\ run.items[1].id > run.items[3].id
    /\ run.items[1].kind = "plain" /\ run.items[2].kind = "liked"
    /\ run.items[3].kind = "plain"
    /\ run.emitted = << <<Render(run.hd.cls, run.items[1]),
                          Render(run.hd.cls, run.items[3])>> >>

\* C16: in a single process, right after Config.set(k=v) has returned, the
\* file holds the keys that were stored before the call and k, k maps to v, and
\* every other key maps to the value it had before the call.
C16_MergeFrame ==
    \A p \in Procs :
        (Done(p, "set") /\ h[p].outcome = "returned" /\ mySet[p].k = h[p].key)
            => /\ file.st = "ok"
               /\ DOMAIN file.data = DOMAIN h[p].preData \cup {h[p].key}
               /\ \A k \in DOMAIN file.data :
                    SameJson(file.data[k], IF k = h[p].key THEN JsonDumpValue(h[p].arg)
                                           ELSE h[p].preData[k])

\* A set of jive_url on a file that held jira_url: both are stored afterwards.
C16_Witness ==
    \E p \in Procs :
        /\ Done(p, "set") /\ h[p].outcome = "returned" /\ mySet[p].k = h[p].key
        /\ h[p].key = "jive_url" /\ h[p].arg = PyInt(7)
        /\ "jira_url" \in DOMAIN h[p].preData /\ "jive_url" \notin DOMAIN h[p].preData
        /\ file.data["jira_url"] = h[p].preData["jira_url"]
        /\ file.data["jive_url"] = JsonDumpValue(PyInt(7))

\* The keys that were on file when the call opened it for writing and that
\* the mapping it wrote does not hold with the same value: updates it undid.
Undone(p) ==
    {k \in DOMAIN h[p].atOpen :
        /\ k # h[p].key
        /\ (k \notin DOMAIN h[p].postData
              \/ ~SameJson(h[p].postData[k], h[p].atOpen[k]))}

\* C17: a Config.set undoes another call's update only when the two calls ran
\* concurrently (one loaded while the other had loaded and not yet written);
\* a set that ran with no concurrent writer keeps every key that was on file.
C17_LostUpdate ==
    \A p \in Procs :
        (h[p].op = "set" /\ h[p].outcome = "returned")
            => /\ Undone(p) # {} => h[p].overlap
               /\ ~h[p].overlap => SameObject(h[p].atOpen, h[p].preData)

\* Two concurrent sets on different keys, both returned: the file holds the
\* later writer's key only, the earlier writer's update is gone.
C17_Witness ==
    \E p \in Procs : \E q \in Procs \ {p} :
        /\ h[p].op = "set" /\ h[p].outcome = "returned"
        /\ h[q].op = "set" /\ h[q].outcome = "returned"
        /\ h[p].key # h[q].key /\ h[p].overlap /\ h[q].overlap
        /\ h[q].key \in Undone(p)
        /\ file.st = "ok" /\ DOMAIN file.data = {h[p].key}

\* C18: whenever two invocations of the throttled wrapper for the same action
\* that read the same timestamp before their delays have both invoked the
\* action, each re-read that timestamp unchanged, no write of the other landed
\* during its delay, and each recorded a timestamp of its own: the re-read and
\* the write are not one step, and the wrapper is no lock.
C18_NotMutex ==
    \A p \in Procs : \A q \in Procs \ {p} :
        (/\ h[p].op = "throttled" /\ h[q].op = "throttled" /\ h[p].key = h[q].key
         /\ h[p].ran = 1 /\ h[q].ran = 1 /\ PyEq(h[p].val, h[q].val))
            => /\ h[p].reread /\ PyEq(h[p].again, h[p].val) /\ ~h[p].changed
               /\ h[p].wrote /\ h[p].arg.t = "float" /\ h[p].arg.v > h[p].val.v
               /\ h[p].outcome = "called"

\* Both invocations read timestamp 1, both re-read it unchanged, both wrote
\* and both invoked create_card: two executions in one window.
C18_Witness ==
    \E p \in Procs : \E q \in Procs \ {p} :
        /\ h[p].op = "throttled" /\ h[q].op = "throttled"
        /\ h[p].key = "called_create_card" /\ h[q].key = h[p].key
        /\ PyEq(h[p].val, PyFloat(1)) /\ PyEq(h[q].val, PyFloat(1))
        /\ h[p].reread /\ h[q].reread
        /\ PyEq(h[p].again, h[p].val) /\ PyEq(h[q].again, h[q].val)
        /\ h[p].wrote /\ h[q].wrote
        /\ h[p].ran = 1 /\ h[q].ran = 1
        /\ now <= 3

\* C19 as stated: a fetch of the boards that finds no trello_member_id in the
\* config store gets the member through fetch_me, stores its id and goes on to
\* get_boards; and whenever fetch_my_member_id returned, the value returned is
\* non-empty and is the one the config store holds.
C19_MemberIdFallback ==
    \A p \in Procs :
        (h[p].op = "trello_fetch" /\ pc[p] = "idle" /\ h[p].preSt = "ok")
            => /\ Stored(p).t = "None"
                    => /\ h[p].outcome = "boards" /\ h[p].exc = "none"
                       /\ h[p].ran = 1 /\ h[p].wrote
               /\ h[p].outcome = "boards"
                    => /\ Truthy(h[p].ret)
                       /\ h[p].fileAfter = "ok"
                       /\ PyEq(DictGet(JsonLoad(h[p].postData), h[p].key), h[p].ret)

====
